---- MODULE Spec2Model ----
(***************************************************************************)
(* Email-to-Asana automation: the orchestrator loop of src/src/main.py     *)
(* over the Gmail, Gemini and Asana clients.                               *)
(*                                                                         *)
(* Text is a sequence of one-character strings, so that lower-casing,      *)
(* substring search, slicing and base64 decoding are computed as the code  *)
(* computes them.                                                          *)
(***************************************************************************)
EXTENDS Integers, Sequences, FiniteSets, TLC

(***************************************************************************)
(* Bounds of the model.                                                    *)
(***************************************************************************)
\* Largest number of unread messages in the mailbox when a run starts.
MaxUnread == 3

(***************************************************************************)
(* Program constants.                                                      *)
(***************************************************************************)
\* main.py:65  gmail.get_unread_emails(max_results=10)
max_results == 10

\* gmail_client.py:118  max_length = 3000
max_length == 3000

\* main.py:105  email['subject'][:50]
PrioritySubjectLen == 50

\* '...[truncated]'
TruncMarker ==
    <<".", ".", ".", "[", "t", "r", "u", "n", "c", "a", "t", "e", "d", "]">>

\* '[Priority] '
PriorityPrefix ==
    <<"[", "P", "r", "i", "o", "r", "i", "t", "y", "]", " ">>

\* main.py:19  PRIORITY_DOMAINS = ['businessanywhere.io']
\* 'businessanywhere.io'
Domain1 ==
    <<"b", "u", "s", "i", "n", "e", "s", "s", "a", "n", "y", "w", "h", "e", "r", "e", ".", "i", "o">>

PRIORITY_DOMAINS == <<Domain1>>

\* main.py:33-43  unsubscribe_patterns
\* ---- patterns
\* 'unsubscribe'
Pattern1 ==
    <<"u", "n", "s", "u", "b", "s", "c", "r", "i", "b", "e">>

\* 'opt-out'
Pattern2 ==
    <<"o", "p", "t", "-", "o", "u", "t">>

\* 'opt out'
Pattern3 ==
    <<"o", "p", "t", " ", "o", "u", "t">>

\* 'remove me'
Pattern4 ==
    <<"r", "e", "m", "o", "v", "e", " ", "m", "e">>

\* 'manage preferences'
Pattern5 ==
    <<"m", "a", "n", "a", "g", "e", " ", "p", "r", "e", "f", "e", "r", "e", "n", "c", "e", "s">>

\* 'email preferences'
Pattern6 ==
    <<"e", "m", "a", "i", "l", " ", "p", "r", "e", "f", "e", "r", "e", "n", "c", "e", "s">>

\* 'subscription preferences'
Pattern7 ==
    <<"s", "u", "b", "s", "c", "r", "i", "p", "t", "i", "o", "n", " ", "p", "r", "e", "f", "e", "r",
       "e", "n", "c", "e", "s">>

\* 'click here to stop'
Pattern8 ==
    <<"c", "l", "i", "c", "k", " ", "h", "e", "r", "e", " ", "t", "o", " ", "s", "t", "o", "p">>

\* 'no longer wish to receive'
Pattern9 ==
    <<"n", "o", " ", "l", "o", "n", "g", "e", "r", " ", "w", "i", "s", "h", " ", "t", "o", " ", "r",
       "e", "c", "e", "i", "v", "e">>

unsubscribe_patterns ==
    <<Pattern1, Pattern2, Pattern3, Pattern4, Pattern5, Pattern6, Pattern7, Pattern8, Pattern9>>

\* gemini_evaluator.py:10-14  TEAM_MEMBERS (name -> Asana GID), in dict order
TeamNames == <<"Anna", "Max", "Roger">>

TEAM_MEMBERS ==
    [Anna |-> "1210895765709613", Max |-> "1210895765692974", Roger |-> "1210895765247998"]

\* gemini_evaluator.py:15
DEFAULT_ASSIGNEE == "Roger"

(***************************************************************************)
(* Text primitives (Python str methods used by the code).                  *)
(***************************************************************************)
UpperCase ==
    <<"A", "B", "C", "D", "E", "F", "G", "H", "I", "J", "K", "L", "M", "N", "O", "P", "Q", "R",
       "S", "T", "U", "V", "W", "X", "Y", "Z">>

LowerCase ==
    <<"a", "b", "c", "d", "e", "f", "g", "h", "i", "j", "k", "l", "m", "n", "o", "p", "q", "r",
       "s", "t", "u", "v", "w", "x", "y", "z">>

\* the lower-case letter of each upper-case letter
LowerOf == [c \in {UpperCase[k] : k \in 1..26} |-> LowerCase[CHOOSE k \in 1..26 : UpperCase[k] = c]]

\* str.lower() of one character (ASCII letters; every other character is kept)
LowerChar(c) == IF c \in DOMAIN LowerOf THEN LowerOf[c] ELSE c

\* str.lower()
Lower(s) == [i \in 1..Len(s) |-> LowerChar(s[i])]

\* needle in hay (substring test)
Contains(hay, needle) ==
    \E i \in 0..(Len(hay) - Len(needle)) : SubSeq(hay, i + 1, i + Len(needle)) = needle

\* s[:n]
Take(s, n) == SubSeq(s, 1, IF Len(s) < n THEN Len(s) ELSE n)

(***************************************************************************)
(* main.py: the two pre-filters.                                           *)
(***************************************************************************)
is_priority_sender(sender) ==
    LET sender_lower == Lower(sender)
    IN  \E k \in DOMAIN PRIORITY_DOMAINS : Contains(sender_lower, PRIORITY_DOMAINS[k])

\* has_unsubscribe_link without the lower-casing
has_unsubscribe_link_CaseSensitive(body) ==
    IF body = <<>>
    THEN FALSE
    ELSE \E k \in DOMAIN unsubscribe_patterns : Contains(body, unsubscribe_patterns[k])

has_unsubscribe_link(body) ==
    IF body = <<>>
    THEN FALSE
    ELSE LET body_lower == Lower(body)
         IN  \E k \in DOMAIN unsubscribe_patterns : Contains(body_lower, unsubscribe_patterns[k])

(***************************************************************************)
(* A call that may raise returns Ok(value) or Raise(exception name).       *)
(***************************************************************************)
Ok(v) == [raised |-> FALSE, value |-> v]

Raise(e) == [raised |-> TRUE, value |-> e]

(***************************************************************************)
(* base64.urlsafe_b64decode(data).decode('utf-8')                          *)
(***************************************************************************)
\* urlsafe alphabet
B64Alphabet ==
    <<"A", "B", "C", "D", "E", "F", "G", "H", "I", "J", "K", "L", "M", "N", "O", "P", "Q", "R", "S",
       "T", "U", "V", "W", "X", "Y", "Z", "a", "b", "c", "d", "e", "f", "g", "h", "i", "j", "k", "l",
       "m", "n", "o", "p", "q", "r", "s", "t", "u", "v", "w", "x", "y", "z", "0", "1", "2", "3", "4",
       "5", "6", "7", "8", "9", "-", "_">>

\* chr(32)..chr(126); the grave accent, which a TLA+ string cannot hold, is "GRAVE"
Chr32 ==
    <<" ", "!", "\"", "#", "$", "%", "&", "'", "(", ")", "*", "+", ",", "-", ".", "/", "0", "1", "2",
       "3", "4", "5", "6", "7", "8", "9", ":", ";", "<", "=", ">", "?", "@", "A", "B", "C", "D", "E",
       "F", "G", "H", "I", "J", "K", "L", "M", "N", "O", "P", "Q", "R", "S", "T", "U", "V", "W", "X",
       "Y", "Z", "[", "\\", "]", "^", "_", "GRAVE", "a", "b", "c", "d", "e", "f", "g", "h", "i", "j", "k",
       "l", "m", "n", "o", "p", "q", "r", "s", "t", "u", "v", "w", "x", "y", "z", "{", "|", "}", "~">>

\* the six bits of each character of the alphabet
B64Bits == [c \in {B64Alphabet[k] : k \in 1..64} |-> (CHOOSE k \in 1..64 : B64Alphabet[k] = c) - 1]

IsB64Char(c) == c \in DOMAIN B64Bits

B64Value(c) == B64Bits[c]

IsPad(c) == c = "="

\* The decoded bytes, or binascii.Error.  Characters outside the alphabet are
\* discarded (validate=False); the data characters and the padding together
\* must fill whole groups of four.
urlsafe_b64decode(data) ==
    LET sext == SelectSeq(data, IsB64Char)
        pad == Len(SelectSeq(data, IsPad))
        n == Len(sext)
        nbytes == (n * 6) \div 8
        at(q) == IF q <= n THEN B64Value(sext[q]) ELSE 0
        byte(k) ==
            LET off == (k - 1) * 8
                q == off \div 6
                r == off % 6
                window == at(q + 1) * 64 + at(q + 2)
            IN  (window \div (2 ^ (4 - r))) % 256
    IN  IF n % 4 = 1 \/ (n % 4 # 0 /\ (n + pad) % 4 # 0)
        THEN Raise("binascii.Error")
        ELSE Ok([k \in 1..nbytes |-> byte(k)])

\* bytes.decode('utf-8') of ASCII text.  A byte above 127 stands for an
\* ill-formed sequence (the model's inputs hold no well-formed multi-byte
\* character); a control character decodes to the placeholder "^".
utf8_decode(bytes) ==
    IF \E k \in 1..Len(bytes) : bytes[k] > 127
    THEN Raise("UnicodeDecodeError")
    ELSE Ok([k \in 1..Len(bytes) |->
                IF bytes[k] \in 32..126 THEN Chr32[bytes[k] - 31] ELSE "^"])

b64_text(data) ==
    LET raw == urlsafe_b64decode(data)
    IN  IF raw.raised THEN raw ELSE utf8_decode(raw.value)

(***************************************************************************)
(* gmail_client.py: GmailClient._extract_body                              *)
(***************************************************************************)
\* body[:max_length] + "...[truncated]" when len(body) > max_length
truncate(body) ==
    IF Len(body) > max_length THEN SubSeq(body, 1, max_length) \o TruncMarker ELSE body

\* payload['body'].get('data') is truthy
HasDirectData(payload) ==
    /\ "body" \in DOMAIN payload
    /\ "data" \in DOMAIN payload.body
    /\ payload.body.data # <<>>

RECURSIVE _extract_body(_)
RECURSIVE ScanParts(_, _)
\* ScanParts descending into every part that has parts of its own
ScanParts_AnyMultipart(parts, i) ==
    IF i > Len(parts)
    THEN Ok(<<>>)
    ELSE LET part == parts[i]
         IN  IF part.mimeType = "text/plain"
             THEN IF "data" \in DOMAIN part.body
                  THEN b64_text(part.body.data)
                  ELSE ScanParts(parts, i + 1)
             ELSE IF "parts" \in DOMAIN part
                  THEN LET nested == _extract_body(part)
                       IN  IF nested.raised \/ nested.value # <<>>
                           THEN nested
                           ELSE ScanParts(parts, i + 1)
                  ELSE ScanParts(parts, i + 1)

\* the for loop over payload['parts'], from part i on; body is still ''
ScanParts(parts, i) ==
    IF i > Len(parts)
    THEN Ok(<<>>)
    ELSE LET part == parts[i]
         IN  IF part.mimeType = "text/plain"
             THEN IF "data" \in DOMAIN part.body
                  THEN b64_text(part.body.data)
                  ELSE ScanParts(parts, i + 1)
             ELSE IF part.mimeType = "multipart/alternative"
                  THEN LET nested == _extract_body(part)
                       IN  IF nested.raised \/ nested.value # <<>>
                           THEN nested
                           ELSE ScanParts(parts, i + 1)
                  ELSE ScanParts(parts, i + 1)

_extract_body(payload) ==
    LET found ==
            IF HasDirectData(payload)
            THEN b64_text(payload.body.data)
            ELSE IF "parts" \in DOMAIN payload
                 THEN ScanParts(payload.parts, 1)
                 ELSE Ok(<<>>)
    IN  IF found.raised THEN found ELSE Ok(truncate(found.value))

(***************************************************************************)
(* Values exchanged with the backends.  A JSON scalar is [t, s]; a JSON    *)
(* array is [t, items]; a JSON object is [t, o] with o a function from its *)
(* keys; Python text built by the program is [t, chars].                   *)
(***************************************************************************)
None == [t |-> "null", s |-> ""]

JStr(s) == [t |-> "str", s |-> s]

JBool(b) == [t |-> "bool", s |-> IF b THEN "true" ELSE "false"]

JList(items) == [t |-> "list", items |-> items]

JObj(o) == [t |-> "obj", o |-> o]

PyStr(chars) == [t |-> "str", chars |-> chars]

\* bool(v)
Truthy(v) ==
    CASE v.t = "null" -> FALSE
      [] v.t = "bool" -> v.s = "true"
      [] v.t = "list" -> v.items # <<>>
      [] v.t = "obj" -> DOMAIN v.o # {}
      [] v.t = "str" -> IF "chars" \in DOMAIN v THEN v.chars # <<>> ELSE v.s # ""
      [] OTHER -> v.s # "0"

\* d[k] = v
Put(d, k, v) == [x \in DOMAIN d \cup {k} |-> IF x = k THEN v ELSE d[x]]

\* d.get(k, default)
Get(d, k, default) == IF k \in DOMAIN d THEN d[k] ELSE default

(***************************************************************************)
(* gemini_evaluator.py: GeminiEvaluator._parse_response, evaluate_email.   *)
(* The response text is a sequence of lexical pieces: white space, the     *)
(* code-fence markers "fence_json" and "fence" (three grave accents, with  *)
(* and without the word json), a complete JSON document (with its value),  *)
(* or text that is no JSON.                                                *)
(***************************************************************************)
Ws == [k |-> "ws", v |-> None]

FenceJson == [k |-> "fence_json", v |-> None]

Fence == [k |-> "fence", v |-> None]

Junk == [k |-> "junk", v |-> None]

Json(v) == [k |-> "json", v |-> v]

RECURSIVE lstrip(_)
lstrip(text) == IF text # <<>> /\ Head(text).k = "ws" THEN lstrip(Tail(text)) ELSE text

RECURSIVE rstrip(_)
rstrip(text) ==
    IF text # <<>> /\ text[Len(text)].k = "ws"
    THEN rstrip(SubSeq(text, 1, Len(text) - 1))
    ELSE text

\* str.strip()
strip(text) == rstrip(lstrip(text))

NotFenceJson(piece) == piece.k # "fence_json"

NotFence(piece) == piece.k # "fence"

\* the dict _parse_response returns when json.loads fails
ParseDefault ==
    JObj([is_actionable |-> JBool(FALSE), task_name |-> JStr(""), task_notes |-> JStr(""),
          assignee |-> JStr(DEFAULT_ASSIGNEE)])

\* json.loads(cleaned): the value of the one document, or JSONDecodeError
json_loads(cleaned) ==
    IF Len(cleaned) = 1 /\ cleaned[1].k = "json" THEN Ok(cleaned[1].v) ELSE Raise("JSONDecodeError")

_parse_response(response_text) ==
    LET cleaned == strip(SelectSeq(SelectSeq(strip(response_text), NotFenceJson), NotFence))
        loaded == json_loads(cleaned)
    IN  IF loaded.raised THEN ParseDefault ELSE loaded.value

\* the dict of evaluate_email's except branch
ErrorEvaluation(e) ==
    [is_actionable |-> JBool(FALSE), task_name |-> JStr(""), task_notes |-> JStr(""),
     assignee |-> JStr(DEFAULT_ASSIGNEE), assignee_gid |-> JStr(TEAM_MEMBERS[DEFAULT_ASSIGNEE]),
     error |-> JStr(e)]

\* assignee_name in TEAM_MEMBERS, for a hashable value
InTeam(v) == v.t = "str" /\ v.s \in DOMAIN TEAM_MEMBERS

\* ResolveAssignee falling back to the first member of the roster
ResolveAssignee_FirstMember(result) ==
    LET assignee_name == Get(result, "assignee", JStr(TeamNames[1]))
    IN  IF InTeam(assignee_name) THEN assignee_name.s ELSE TeamNames[1]

\* the assignee after lines 74-76
ResolveAssignee(result) ==
    LET assignee_name == Get(result, "assignee", JStr(DEFAULT_ASSIGNEE))
    IN  IF InTeam(assignee_name) THEN assignee_name.s ELSE DEFAULT_ASSIGNEE

\* backend: what self.model.generate_content(prompt) / response.text does,
\* Raise(e) or Ok(response text)
evaluate_email(backend) ==
    IF backend.raised
    THEN ErrorEvaluation(backend.value)
    ELSE LET result == _parse_response(backend.value)
         IN  IF result.t # "obj"
             THEN ErrorEvaluation("AttributeError")   \* result.get on a non-dict
             ELSE IF Get(result.o, "assignee", None).t \in {"list", "obj"}
                  THEN ErrorEvaluation("TypeError")   \* unhashable in TEAM_MEMBERS
                  ELSE LET assignee_name == ResolveAssignee(result.o)
                       IN  Put(Put(result.o, "assignee", JStr(assignee_name)),
                               "assignee_gid", JStr(TEAM_MEMBERS[assignee_name]))

(***************************************************************************)
(* asana_client.py: AsanaClient.create_task.  backend is what              *)
(* tasks_api.create_task does: "created", "ApiException" or "Exception".   *)
(***************************************************************************)
create_task(name, notes, assignee_gid, follower_gids, project_gid, backend) ==
    LET base == [name |-> name, notes |-> notes, projects |-> <<project_gid>>]
        with_assignee == IF Truthy(assignee_gid) THEN Put(base, "assignee", assignee_gid) ELSE base
        task_data ==
            IF Truthy(follower_gids) THEN Put(with_assignee, "followers", follower_gids)
            ELSE with_assignee
    IN  [request |-> task_data,
         result |-> IF backend = "created"
                    THEN [success |-> TRUE, gid |-> "gid", permalink_url |-> "url", name |-> name]
                    ELSE [success |-> FALSE, error |-> backend]]

(***************************************************************************)
(* The mail provider's messages the model draws from.                      *)
(***************************************************************************)
\* 'Subject'
HdrSubject ==
    <<"S", "u", "b", "j", "e", "c", "t">>

\* 'From'
HdrFrom ==
    <<"F", "r", "o", "m">>

\* 'To'
HdrTo ==
    <<"T", "o">>

\* 'subject'
KeySubject ==
    <<"s", "u", "b", "j", "e", "c", "t">>

\* 'from'
KeyFrom ==
    <<"f", "r", "o", "m">>

\* 'Ann <ann@BusinessAnywhere.io>'
SenderPriority ==
    <<"A", "n", "n", " ", "<", "a", "n", "n", "@", "B", "u", "s", "i", "n", "e", "s", "s", "A", "n",
       "y", "w", "h", "e", "r", "e", ".", "i", "o", ">">>

\* 'bob@example.com'
SenderPlain ==
    <<"b", "o", "b", "@", "e", "x", "a", "m", "p", "l", "e", ".", "c", "o", "m">>

\* 'Invoice due'
SubjectInvoice ==
    <<"I", "n", "v", "o", "i", "c", "e", " ", "d", "u", "e">>

\* 'Hello'
SubjectHello ==
    <<"H", "e", "l", "l", "o">>

\* 'Hi team'
SnippetPlain ==
    <<"H", "i", " ", "t", "e", "a", "m">>

\* 'Manage Preferences'
SnippetPrefs ==
    <<"M", "a", "n", "a", "g", "e", " ", "P", "r", "e", "f", "e", "r", "e", "n", "c", "e", "s">>

\* base64url of 'Please call me'
DataCall ==
    <<"U", "G", "x", "l", "Y", "X", "N", "l", "I", "G", "N", "h", "b", "G", "w", "g", "b", "W", "U",
       "=">>

\* base64url of 'Click here to UNSUBSCRIBE'
DataUnsub ==
    <<"Q", "2", "x", "p", "Y", "2", "s", "g", "a", "G", "V", "y", "Z", "S", "B", "0", "b", "y", "B",
       "V", "T", "l", "N", "V", "Q", "l", "N", "D", "U", "k", "l", "C", "R", "Q", "=", "=">>

\* base64url of 'To opt-out reply'
DataOptOut ==
    <<"V", "G", "8", "g", "b", "3", "B", "0", "L", "W", "9", "1", "d", "C", "B", "y", "Z", "X", "B",
       "s", "e", "Q", "=", "=">>

\* base64url of 'Need a meeting'
DataMeet ==
    <<"T", "m", "V", "l", "Z", "C", "B", "h", "I", "G", "1", "l", "Z", "X", "R", "p", "b", "m", "c",
       "=">>

\* base64url of '<p>Hi</p>'
DataHtml ==
    <<"P", "H", "A", "-", "S", "G", "k", "8", "L", "3", "A", "-">>

\* base64url of the single byte 0xFF
DataBadUtf8 ==
    <<"_", "w", "=", "=">>

\* 3 base64 characters: incorrect padding
DataBadPad ==
    <<"Q", "U", "J">>

\* a part that carries data, one that carries none (an attachment), a multipart
Leaf(mimeType, data) == [mimeType |-> mimeType, body |-> [size |-> Len(data), data |-> data]]

Bare(mimeType) == [mimeType |-> mimeType, body |-> [size |-> 0]]

Multi(mimeType, parts) == [mimeType |-> mimeType, body |-> [size |-> 0], parts |-> parts]

Header(name, value) == [name |-> name, value |-> value]

Message(sender, subject, payload, snippet) ==
    [payload |-> [headers |-> <<Header(HdrTo, SenderPlain), Header(HdrFrom, sender),
                                Header(HdrSubject, subject)>>] @@ payload,
     snippet |-> snippet]

\* the messages of the mailbox, in the order the provider lists them
MsgIds == <<"m1", "m2", "m3", "m4", "m5", "m6", "m7">>

Provider ==
    [m1 |-> Message(SenderPriority, SubjectInvoice, Leaf("text/plain", DataCall), SnippetPlain),
     m2 |-> Message(SenderPlain, SubjectHello,
                    Multi("multipart/alternative",
                          <<Leaf("text/plain", DataUnsub), Leaf("text/html", DataHtml)>>),
                    SnippetPlain),
     m3 |-> Message(SenderPlain, SubjectHello,
                    Multi("multipart/mixed",
                          <<Multi("multipart/alternative",
                                  <<Leaf("text/plain", DataMeet), Leaf("text/html", DataHtml)>>),
                            Bare("application/pdf")>>),
                    SnippetPlain),
     m4 |-> Message(SenderPriority, SubjectInvoice, Leaf("text/plain", DataOptOut), SnippetPlain),
     m5 |-> Message(SenderPlain, SubjectInvoice,
                    Multi("multipart/mixed",
                          <<Multi("multipart/related", <<Leaf("text/plain", DataMeet)>>)>>),
                    SnippetPrefs),
     m6 |-> Message(SenderPlain, SubjectHello, Leaf("text/plain", DataBadUtf8), SnippetPlain),
     m7 |-> Message(SenderPlain, SubjectInvoice,
                    Multi("multipart/mixed", <<Bare("text/plain"), Leaf("text/html", DataHtml)>>),
                    SnippetPlain)]

(***************************************************************************)
(* gmail_client.py: GmailClient._get_email_details, get_unread_emails.     *)
(***************************************************************************)
\* the header loop of lines 77-83: the last header of that name wins
HeaderValue(headers, key) ==
    LET hits == {k \in DOMAIN headers : Lower(headers[k].name) = key}
    IN  IF hits = {} THEN <<>> ELSE headers[CHOOSE k \in hits : \A j \in hits : j <= k].value

\* got: whether messages().get(...).execute() returned.  Ok(email), or
\* Ok(None) when the lookup or the body's decoding raised (caught, line 95)
_get_email_details(msg_id, got) ==
    IF ~got
    THEN Ok(None)
    ELSE LET msg == Provider[msg_id]
             body == _extract_body(msg.payload)
         IN  IF body.raised
             THEN Ok(None)
             ELSE Ok([id |-> msg_id,
                      subject |-> HeaderValue(msg.payload.headers, KeySubject),
                      sender |-> HeaderValue(msg.payload.headers, KeyFrom),
                      body |-> body.value,
                      snippet |-> Get(msg, "snippet", <<>>)])

\* the identifiers messages().list(q='is:unread', maxResults=...) returns
ListUnread(unread_now, limit) ==
    LET ids == SelectSeq(MsgIds, LAMBDA m : m \in unread_now)
    IN  SubSeq(ids, 1, IF Len(ids) < limit THEN Len(ids) ELSE limit)

RECURSIVE CollectEmails(_, _)
\* the loop of lines 58-61 over the listed messages; failing: the messages
\* whose detail lookup raises
CollectEmails(messages, failing) ==
    IF messages = <<>>
    THEN <<>>
    ELSE LET email_data == _get_email_details(Head(messages), Head(messages) \notin failing).value
             rest == CollectEmails(Tail(messages), failing)
         IN  IF email_data # None THEN <<email_data>> \o rest ELSE rest

(***************************************************************************)
(* The run of main(): its state.                                           *)
(***************************************************************************)
VARIABLES
    pc,             \* where main() is: "start", "fetch", "loop", "create", "mark",
                    \* "summary"; ended: "done" (returned), "exit1" (sys.exit(1)),
                    \* "raised" (an exception left main)
    env,            \* the process configuration: token.json and the environment
    unread,         \* the provider's messages that carry the UNREAD label
    emails,         \* main's emails
    i,              \* the loop's position in emails (1-based)
    tasks_created,
    emails_skipped,
    evaluation,     \* main's evaluation of emails[i], None before evaluate_email
    calls,          \* the client calls of the loop so far, in order
    stdout,         \* the verdict lines printed so far
    summary,        \* the counts of the printed SUMMARY block, None before it
    fault,          \* the exception that left main, "" when none did
    completion,     \* what the completion backend did for emails[i], None before
    payload,        \* the argument of a call of _extract_body on its own
    extracted,      \* what that call returned or raised, None before
    earlier         \* the earlier runs over this mailbox: how many they were, the
                    \* emails they marked read, the emails they created a task for

vars ==
    <<pc, env, unread, emails, i, tasks_created, emails_skipped, evaluation, calls, stdout,
      summary, fault, completion, payload, extracted, earlier>>

\* token.json: valid, expired with a refresh token, or unusable
TokenStates == {"valid", "expired", "missing"}

Envs ==
    [token : TokenStates, GEMINI_API_KEY : BOOLEAN, ASANA_ACCESS_TOKEN : BOOLEAN,
     ASANA_PROJECT_GID : BOOLEAN]

\* what generate_content / response.text does for one prompt
Completions ==
    {Raise("ServiceUnavailable"),
     Ok(<<Junk>>),
     Ok(<<Json(JStr("yes"))>>),
     Ok(<<Json(JObj([is_actionable |-> JBool(TRUE)]))>>),
     Ok(<<FenceJson, Ws,
          Json(JObj([is_actionable |-> JBool(TRUE), task_name |-> JStr("Call Ann"),
                     task_notes |-> JStr("Ann asks for a call"), assignee |-> JStr("Anna")])),
          Ws, Fence>>),
     Ok(<<Json(JObj([is_actionable |-> JBool(FALSE), task_name |-> JStr(""),
                     task_notes |-> JStr(""), assignee |-> JStr("Max")]))>>),
     Ok(<<Json(JObj([is_actionable |-> JBool(TRUE), task_name |-> JStr("Fix bug"),
                     task_notes |-> JStr("Site is down"), assignee |-> JStr("Bob")]))>>),
     Ok(<<Json(JObj([is_actionable |-> JBool(TRUE), task_name |-> JStr("Fix bug"),
                     task_notes |-> JStr("Site is down")]))>>),
     Ok(<<Json(JObj([is_actionable |-> JBool(TRUE), task_name |-> JStr("Fix bug"),
                     task_notes |-> JStr("Site is down"),
                     assignee |-> JList(<<JStr("Anna"), JStr("Max")>>)]))>>)}

\* what tasks_api.create_task does for one request
TaskOutcomes == {"created", "ApiException", "Exception"}

Call(op, id, request, ok) == [op |-> op, id |-> id, request |-> request, ok |-> ok]

\* before the first run over the mailbox
NoRuns == [runs |-> 0, marked_read |-> {}, task_created |-> {}, mark_failed_after_task |-> {}]

Init ==
    /\ pc = "start"
    /\ env \in Envs
    /\ unread \in {u \in SUBSET {MsgIds[k] : k \in DOMAIN MsgIds} : Cardinality(u) <= MaxUnread}
    /\ emails = <<>>
    /\ i = 1
    /\ tasks_created = 0
    /\ emails_skipped = 0
    /\ evaluation = None
    /\ calls = <<>>
    /\ stdout = <<>>
    /\ summary = None
    /\ fault = ""
    /\ completion = None
    /\ payload = None
    /\ extracted = None
    /\ earlier = NoRuns

(***************************************************************************)
(* main.py 52-61: the three clients are built inside one try.              *)
(***************************************************************************)
\* GmailClient._authenticate returns; refreshed: creds.refresh() succeeded
GmailReady(refreshed) == env.token = "valid" \/ (env.token = "expired" /\ refreshed)

GeminiReady == env.GEMINI_API_KEY

AsanaReady == env.ASANA_ACCESS_TOKEN /\ env.ASANA_PROJECT_GID

Initialize ==
    /\ pc = "start"
    /\ \E refreshed \in BOOLEAN :
          IF GmailReady(refreshed) /\ GeminiReady /\ AsanaReady
          THEN /\ pc' = "fetch"
               /\ stdout' = stdout
          ELSE /\ pc' = "exit1"
               /\ stdout' = Append(stdout, "ERROR: Failed to initialize clients")
    /\ UNCHANGED <<earlier, env, unread, emails, i, tasks_created, emails_skipped, evaluation, calls,
                   summary, fault, completion, payload, extracted>>

(***************************************************************************)
(* main.py 63-72: fetch, and the early return on an empty batch.           *)
(***************************************************************************)
\* listed: whether messages().list(...).execute() returned
get_unread_emails(limit, listed, failing) ==
    IF ~listed
    THEN Raise("HttpError")
    ELSE Ok(CollectEmails(ListUnread(unread, limit), failing))

Fetch ==
    /\ pc = "fetch"
    /\ \E listed \in BOOLEAN, failing \in SUBSET unread :
          LET fetched == get_unread_emails(max_results, listed, failing)
          IN  IF fetched.raised
              THEN /\ pc' = "raised"
                   /\ fault' = fetched.value
                   /\ UNCHANGED <<emails, stdout>>
              ELSE /\ emails' = fetched.value
                   /\ fault' = fault
                   /\ IF fetched.value = <<>>
                      THEN /\ pc' = "done"
                           /\ stdout' = Append(stdout, "No unread emails found.")
                      ELSE /\ pc' = "loop"
                           /\ stdout' = stdout
    /\ UNCHANGED <<earlier, env, unread, i, tasks_created, emails_skipped, evaluation, calls, summary,
                   completion, payload, extracted>>

\* mark_as_read reporting success while the UNREAD label stays
mark_as_read_LabelKept(msg_id, modified) == [unread |-> unread, result |-> modified]

(***************************************************************************)
(* gmail_client.py: GmailClient.mark_as_read.  modified: whether           *)
(* messages().modify(...).execute() returned.                              *)
(***************************************************************************)
mark_as_read(msg_id, modified) ==
    [unread |-> IF modified THEN unread \ {msg_id} ELSE unread, result |-> modified]

\* count_created counting the task whether or not it was created
count_created_Always(result) == tasks_created + 1

\* main.py 109-113, 141-148: tasks_created += 1 only on result['success']
count_created(result) == IF result.success THEN tasks_created + 1 ELSE tasks_created

\* NextEmail leaving the loop one email early
NextEmail_StopsEarly ==
    /\ i' = i + 1
    /\ pc' = IF i + 1 >= Len(emails) THEN "summary" ELSE "loop"
    /\ evaluation' = None
    /\ completion' = None

\* the loop moves on to the next email, or to the summary
NextEmail ==
    /\ i' = i + 1
    /\ pc' = IF i + 1 > Len(emails) THEN "summary" ELSE "loop"
    /\ evaluation' = None
    /\ completion' = None

\* main.py 84: email['body'] or email['snippet']
email_content(email) == IF email.body # <<>> THEN email.body ELSE email.snippet

(***************************************************************************)
(* main.py 85-90: a marketing email is skipped and marked read.            *)
(***************************************************************************)
MarketingSkip ==
    /\ pc = "loop"
    /\ has_unsubscribe_link(email_content(emails[i]))
    /\ emails_skipped' = emails_skipped + 1
    /\ \E modified \in BOOLEAN :
          LET marked == mark_as_read(emails[i].id, modified)
          IN  /\ unread' = marked.unread
              /\ calls' = Append(calls, Call("mark_as_read", emails[i].id, None, marked.result))
    /\ stdout' = stdout \o <<"Marketing email (has unsubscribe link), skipping.",
                             "Marked as read.">>
    /\ NextEmail
    /\ UNCHANGED <<earlier, env, emails, tasks_created, summary, fault, payload, extracted>>

(***************************************************************************)
(* main.py 93-113: a priority sender gets one task followed by the whole   *)
(* team.                                                                   *)
(***************************************************************************)
all_member_gids == JList([k \in DOMAIN TeamNames |-> JStr(TEAM_MEMBERS[TeamNames[k]])])

PriorityTask ==
    /\ pc = "loop"
    /\ ~has_unsubscribe_link(email_content(emails[i]))
    /\ is_priority_sender(emails[i].sender)
    /\ \E backend \in TaskOutcomes :
          LET email == emails[i]
              task_notes ==
                  [template |-> "priority", sender |-> email.sender,
                   date |-> Get(email, "date", "Unknown"), subject |-> email.subject]
              made == create_task(PyStr(PriorityPrefix \o Take(email.subject, PrioritySubjectLen)),
                                  task_notes, None, all_member_gids, "project", backend)
          IN  /\ calls' = Append(calls, Call("create_task", email.id, made.request,
                                             made.result.success))
              /\ tasks_created' = count_created(made.result)
              /\ stdout' = Append(stdout, IF made.result.success
                                          THEN "Task created with all team members as followers"
                                          ELSE "ERROR creating task")
    /\ pc' = "mark"
    /\ UNCHANGED <<earlier, env, unread, emails, i, emails_skipped, evaluation, summary, fault, completion,
                   payload, extracted>>

(***************************************************************************)
(* main.py 115-123, 149-151: the Classifier's verdict.                     *)
(***************************************************************************)
Evaluate ==
    /\ pc = "loop"
    /\ ~has_unsubscribe_link(email_content(emails[i]))
    /\ ~is_priority_sender(emails[i].sender)
    /\ \E backend \in Completions :
          LET verdict == evaluate_email(backend)
          IN  /\ evaluation' = verdict
              /\ completion' = backend
              /\ calls' = Append(calls, Call("evaluate_email", emails[i].id, None, ~backend.raised))
              /\ IF Truthy(Get(verdict, "is_actionable", None))
                 THEN /\ pc' = "create"
                      /\ emails_skipped' = emails_skipped
                      /\ stdout' = Append(stdout, "ACTIONABLE")
                 ELSE /\ pc' = "mark"
                      /\ emails_skipped' = emails_skipped + 1
                      /\ stdout' = Append(stdout, "Not actionable, skipping.")
    /\ UNCHANGED <<earlier, env, unread, emails, i, tasks_created, summary, fault, payload, extracted>>

(***************************************************************************)
(* main.py 124-148: the task of an actionable email.  Reading a key the    *)
(* evaluation lacks raises KeyError, which nothing in main catches.        *)
(***************************************************************************)
CreateActionableTask ==
    /\ pc = "create"
    /\ IF ~({"assignee", "task_notes", "task_name", "assignee_gid"} \subseteq DOMAIN evaluation)
       THEN /\ pc' = "raised"
            /\ fault' = "KeyError"
            /\ UNCHANGED <<tasks_created, calls, stdout>>
       ELSE /\ \E backend \in TaskOutcomes :
                  LET email == emails[i]
                      task_notes ==
                          [template |-> "actionable", sender |-> email.sender,
                           date |-> Get(email, "date", "Unknown"),
                           task_notes |-> evaluation.task_notes, subject |-> email.subject]
                      made == create_task(evaluation.task_name, task_notes,
                                          evaluation.assignee_gid, None, "project", backend)
                  IN  /\ calls' = Append(calls, Call("create_task", email.id, made.request,
                                                     made.result.success))
                      /\ tasks_created' = count_created(made.result)
                      /\ stdout' = Append(stdout, IF made.result.success THEN "Task created"
                                                  ELSE "ERROR creating task")
            /\ pc' = "mark"
            /\ fault' = fault
    /\ UNCHANGED <<earlier, env, unread, emails, i, emails_skipped, evaluation, summary, completion, payload,
                   extracted>>

(***************************************************************************)
(* main.py 153-157: the email is marked read.                              *)
(***************************************************************************)
MarkRead ==
    /\ pc = "mark"
    /\ \E modified \in BOOLEAN :
          LET marked == mark_as_read(emails[i].id, modified)
          IN  /\ unread' = marked.unread
              /\ calls' = Append(calls, Call("mark_as_read", emails[i].id, None, marked.result))
              /\ stdout' = Append(stdout, IF marked.result THEN "Marked as read."
                                          ELSE "Warning: Failed to mark as read.")
    /\ NextEmail
    /\ UNCHANGED <<earlier, env, emails, tasks_created, emails_skipped, summary, fault, payload, extracted>>

(***************************************************************************)
(* main.py 159-166: the summary.                                           *)
(***************************************************************************)
Summary ==
    /\ pc = "summary"
    /\ summary' = [processed |-> Len(emails), created |-> tasks_created,
                   skipped |-> emails_skipped]
    /\ stdout' = Append(stdout, "SUMMARY")
    /\ pc' = "done"
    /\ UNCHANGED <<earlier, env, unread, emails, i, tasks_created, emails_skipped, evaluation, calls,
                   fault, completion, payload, extracted>>

Next ==
    \/ Initialize
    \/ Fetch
    \/ MarketingSkip
    \/ PriorityTask
    \/ Evaluate
    \/ CreateActionableTask
    \/ MarkRead
    \/ Summary

Spec == Init /\ [][Next]_vars

(***************************************************************************)
(* Runs one after another over the same mailbox.  A run keeps nothing for  *)
(* the next one: main() starts again from line 47, and only the provider's *)
(* UNREAD labels, which mark_as_read alone changes, carry over.            *)
(***************************************************************************)
MaxRuns == 2

\* the emails one run may find unread at its start
MaxMailbox == 2

\* the emails whose call op in this run had the outcome ok
IdsWith(op, ok) == {calls[k].id : k \in {j \in DOMAIN calls : calls[j].op = op /\ calls[j].ok = ok}}

\* the run has ended and main() is invoked again
NextRun ==
    /\ pc \in {"done", "raised", "exit1"}
    /\ earlier.runs + 1 < MaxRuns
    /\ earlier' =
          [runs |-> earlier.runs + 1,
           marked_read |-> earlier.marked_read \cup IdsWith("mark_as_read", TRUE),
           task_created |-> earlier.task_created \cup IdsWith("create_task", TRUE),
           mark_failed_after_task |->
               earlier.mark_failed_after_task
                 \cup (IdsWith("create_task", TRUE) \cap IdsWith("mark_as_read", FALSE))]
    /\ pc' = "start"
    /\ emails' = <<>>
    /\ i' = 1
    /\ tasks_created' = 0
    /\ emails_skipped' = 0
    /\ evaluation' = None
    /\ calls' = <<>>
    /\ stdout' = <<>>
    /\ summary' = None
    /\ fault' = ""
    /\ completion' = None
    /\ UNCHANGED <<env, unread, payload, extracted>>

InitRuns ==
    /\ Init
    /\ Cardinality(unread) <= MaxMailbox

NextRuns ==
    \/ Next
    \/ NextRun

SpecRuns == InitRuns /\ [][NextRuns]_vars

(***************************************************************************)
(* _extract_body on its own: every payload tree of up to MaxNodes parts    *)
(* over the part kinds below, and a few payloads with a body longer than   *)
(* max_length.                                                             *)
(***************************************************************************)
\* Largest number of parts (the payload itself included) of an enumerated tree.
MaxNodes == 4

\* base64url of "a" repeated 3006 times
DataLong == [k \in 1..4008 |-> <<"Y", "W", "F", "h">>[((k - 1) % 4) + 1]]

LeafKinds ==
    {Leaf("text/plain", DataMeet), Leaf("text/plain", DataCall), Leaf("text/html", DataHtml),
     Bare("text/plain")}

Wrappers == {"multipart/alternative", "multipart/mixed", "multipart/related"}

RECURSIVE TreesOfSize(_)
RECURSIVE Forests(_)
\* the non-empty sequences of trees with n parts in all
Forests(n) ==
    UNION {{<<t>> \o rest : t \in TreesOfSize(j),
                           rest \in IF j = n THEN {<<>>} ELSE Forests(n - j)} : j \in 1..n}

\* the payload trees with exactly n parts
TreesOfSize(n) ==
    IF n = 1 THEN LeafKinds ELSE {Multi(w, parts) : w \in Wrappers, parts \in Forests(n - 1)}

LongPayloads ==
    {Leaf("text/plain", DataLong),
     Multi("multipart/mixed", <<Leaf("text/html", DataHtml), Leaf("text/plain", DataLong)>>),
     Multi("multipart/mixed",
           <<Multi("multipart/alternative", <<Leaf("text/plain", DataLong)>>),
             Leaf("text/plain", DataMeet)>>),
     Multi("multipart/mixed", <<Leaf("text/plain", DataBadUtf8), Leaf("text/plain", DataMeet)>>),
     Multi("multipart/mixed", <<Bare("text/plain"), Leaf("text/plain", DataBadPad)>>)}

Payloads == UNION {TreesOfSize(n) : n \in 1..MaxNodes} \cup LongPayloads

InitExtract ==
    /\ pc = "extract"
    /\ payload \in Payloads
    /\ extracted = None
    /\ env = [token |-> "valid", GEMINI_API_KEY |-> TRUE, ASANA_ACCESS_TOKEN |-> TRUE,
              ASANA_PROJECT_GID |-> TRUE]
    /\ unread = {}
    /\ emails = <<>>
    /\ i = 1
    /\ tasks_created = 0
    /\ emails_skipped = 0
    /\ evaluation = None
    /\ calls = <<>>
    /\ stdout = <<>>
    /\ summary = None
    /\ fault = ""
    /\ completion = None
    /\ earlier = NoRuns

ExtractBody ==
    /\ pc = "extract"
    /\ extracted' = _extract_body(payload)
    /\ pc' = "extracted"
    /\ UNCHANGED <<earlier, env, unread, emails, i, tasks_created, emails_skipped, evaluation, calls,
                   stdout, summary, fault, completion, payload>>

NextExtract == ExtractBody

SpecExtract == InitExtract /\ [][NextExtract]_vars

(***************************************************************************)
(* Properties.                                                             *)
(***************************************************************************)
RECURSIVE Flatten(_, _)
\* the leaves below the parts of a sequence, in document order, descending
\* into every multipart part, or into the multipart/alternative parts only
Flatten(parts, alternative_only) ==
    IF parts = <<>>
    THEN <<>>
    ELSE LET part == Head(parts)
             here == IF "parts" \in DOMAIN part
                     THEN IF alternative_only => part.mimeType = "multipart/alternative"
                          THEN Flatten(part.parts, alternative_only)
                          ELSE <<>>
                     ELSE <<part>>
         IN  here \o Flatten(Tail(parts), alternative_only)

PlainWithData(part) ==
    part.mimeType = "text/plain" /\ "data" \in DOMAIN part.body /\ part.body.data # <<>>

\* the decoded, truncated data of the first text/plain leaf with data among
\* the leaves, the empty body when there is none
FirstPlainBody(leaves) ==
    LET plain == SelectSeq(leaves, PlainWithData)
    IN  IF plain = <<>>
        THEN Ok(<<>>)
        ELSE LET text == b64_text(plain[1].body.data)
             IN  IF text.raised THEN text ELSE Ok(truncate(text.value))

NoDirectData == payload # None /\ ~HasDirectData(payload)

PartsOf(p) == IF "parts" \in DOMAIN p THEN p.parts ELSE <<>>

\* C9 as claimed: for a payload with no direct body data, _extract_body
\* returns the content of the first text/plain leaf with data, in document
\* order, of the whole multipart tree, under any kind of multipart wrapper,
\* and the empty body only when the tree has no such leaf.
C9_FirstPlainLeafOfWholeTree ==
    (pc = "extracted" /\ NoDirectData)
        => extracted = FirstPlainBody(Flatten(PartsOf(payload), FALSE))

\* C9 as amended: for a payload with no direct body data, _extract_body
\* returns the content of the first text/plain leaf with data, in document
\* order, among the leaves reached from the payload's parts through
\* multipart/alternative parts only; parts under another multipart wrapper
\* below the top level are not searched; it returns the empty body only
\* when no such leaf is reached.
C9_FirstPlainLeafThroughAlternative ==
    (pc = "extracted" /\ NoDirectData)
        => extracted = FirstPlainBody(Flatten(PartsOf(payload), TRUE))

\* C9 witness: a body found inside a multipart/alternative part that follows
\* a part with no text
C9_Witness ==
    /\ pc = "extracted"
    /\ NoDirectData
    /\ Len(PartsOf(payload)) = 2
    /\ payload.parts[1].mimeType = "text/html"
    /\ payload.parts[2].mimeType = "multipart/alternative"
    /\ ~extracted.raised
    /\ extracted.value # <<>>

(***************************************************************************)
(* Properties of the run.                                                  *)
(***************************************************************************)
\* the loop has finished its pass over emails[k]
Handled(k) == k \in DOMAIN emails /\ k < i

\* the client calls made for one message, in order, and their operations
CallsOf(id) == SelectSeq(calls, LAMBDA c : c.id = id)

OpsOf(id) == [j \in DOMAIN CallsOf(id) |-> CallsOf(id)[j].op]

Count(id, op) == Len(SelectSeq(calls, LAMBDA c : c.id = id /\ c.op = op))

\* the position of a message in emails
IndexOf(id) == CHOOSE k \in DOMAIN emails : emails[k].id = id

\* main() is over
Ended == pc \in {"done", "raised", "exit1"}

RosterGids == {JStr(TEAM_MEMBERS[n]) : n \in DOMAIN TEAM_MEMBERS}

\* C1: every email of a priority-domain sender the loop has handled, whatever
\* its body or snippet holds, got exactly one create_task call, with all
\* roster identifiers as followers and no assignee, and no evaluate_email
\* call.
C1_PriorityAlwaysOneTask ==
    \A k \in DOMAIN emails :
        (Handled(k) /\ is_priority_sender(emails[k].sender))
            => /\ Count(emails[k].id, "create_task") = 1
               /\ Count(emails[k].id, "evaluate_email") = 0
               /\ \A j \in DOMAIN calls :
                     (calls[j].id = emails[k].id /\ calls[j].op = "create_task")
                         => /\ "assignee" \notin DOMAIN calls[j].request
                            /\ "followers" \in DOMAIN calls[j].request
                            /\ {calls[j].request.followers.items[n] :
                                    n \in DOMAIN calls[j].request.followers.items} = RosterGids

\* the calls come email by email, and mark_as_read is the last call of its email
CallsInOrder ==
    \A a, b \in DOMAIN calls :
        a < b => /\ IndexOf(calls[a].id) <= IndexOf(calls[b].id)
                 /\ calls[a].id = calls[b].id => calls[a].op # "mark_as_read"

\* C2: once a run that passed initialization is over, every fetched email
\* has had exactly one mark_as_read attempt, whatever the attempts returned;
\* the attempt comes after the classify and create-task calls of its email
\* and before any call of the next email.
C2_EveryEmailMarkedOnce ==
    /\ CallsInOrder
    /\ (pc \in {"done", "raised"})
           => \A k \in DOMAIN emails : Count(emails[k].id, "mark_as_read") = 1

EvaluationKeys == {"is_actionable", "task_name", "task_notes", "assignee", "assignee_gid"}

\* C3: whatever the completion backend answered, the evaluation main holds
\* carries is_actionable, task_name, task_notes, assignee and assignee_gid,
\* and main's use of it raises no KeyError.
C3_EvaluationWellFormed ==
    /\ evaluation # None => EvaluationKeys \subseteq DOMAIN evaluation
    /\ fault # "KeyError"

\* the completion backend raised, or create_task failed, for this message
FailedFor(id) ==
    \E j \in DOMAIN calls :
        calls[j].id = id /\ calls[j].op \in {"evaluate_email", "create_task"} /\ ~calls[j].ok

\* C4: when the completion backend raised or create_task failed for an
\* email, no task is created for that email, a classifier fault leaves the
\* default (not actionable) evaluation, and the run ends with every email
\* marked read and the summary printed.
C4_FailuresIsolated ==
    /\ (completion # None /\ completion.raised)
           => (evaluation = ErrorEvaluation(completion.value) /\ pc = "mark")
    /\ \A k \in DOMAIN emails :
          FailedFor(emails[k].id)
              => /\ \A j \in DOMAIN calls :
                       (calls[j].id = emails[k].id /\ calls[j].op = "create_task") => ~calls[j].ok
                 /\ Ended => /\ summary # None
                             /\ \A m \in DOMAIN emails : Count(emails[m].id, "mark_as_read") = 1

\* C5: after the clients are initialized no fault leaves the run.
C5_NoFaultLeavesTheRun == pc # "raised" /\ fault = ""

\* C6 as claimed: a run that passed initialization and returned has printed
\* the summary, also when the fetched batch was empty.
C6_SummaryAlwaysPrinted == pc = "done" => summary # None

\* the state of C6: what a run has printed when it is over or about to print
SummaryOnlyAfterAllEmails ==
    /\ (pc = "summary" \/ summary # None) => (emails # <<>> /\ i > Len(emails))
    /\ (emails # <<>> /\ i > Len(emails)) => pc \in {"summary", "done"}
    /\ (pc = "done" /\ emails # <<>>)
           => summary = [processed |-> Len(emails), created |-> tasks_created,
                         skipped |-> emails_skipped]
    /\ (pc = "done" /\ emails = <<>>)
           => (summary = None /\ stdout = <<"No unread emails found.">>)
    /\ pc \in {"raised", "exit1"} => summary = None

\* C6 as amended: a run that passed initialization prints the summary of
\* processed/created/skipped counts once it has processed every email of a
\* non-empty batch (the step that prints it is then the one step the run can
\* take), and only then; when the fetched batch is empty it prints
\* "No unread emails found." and returns without a summary.
C6_SummaryAfterNonEmptyBatch ==
    /\ SummaryOnlyAfterAllEmails
    /\ pc = "summary" => ENABLED Summary

\* C6 witnesses: a summary after three emails
C6_Witness == pc = "done" /\ Len(emails) = 3 /\ summary # None /\ summary.processed = 3

\* the body of the email holds an unsubscribe/opt-out phrase, in any case
BodyHasOptOutPhrase(email) ==
    \E k \in DOMAIN unsubscribe_patterns : Contains(Lower(email.body), unsubscribe_patterns[k])

DecodedAssigneeUnknown ==
    \/ completion.raised
    \/ LET decoded == _parse_response(completion.value)
       IN  \/ decoded.t # "obj"
           \/ "assignee" \notin DOMAIN decoded.o
           \/ decoded.o.assignee.t # "str"
           \/ decoded.o.assignee.s \notin {"Anna", "Max", "Roger"}

\* C8: every evaluation evaluate_email returned names an assignee of the
\* roster with that member's identifier, and names the default member
\* whenever the decoded assignee is missing or no roster name.
C8_AssigneeInRoster ==
    evaluation # None
        => /\ {"assignee", "assignee_gid"} \subseteq DOMAIN evaluation
           /\ evaluation.assignee.t = "str"
           /\ evaluation.assignee.s \in DOMAIN TEAM_MEMBERS
           /\ evaluation.assignee_gid = JStr(TEAM_MEMBERS[evaluation.assignee.s])
           /\ DecodedAssigneeUnknown => evaluation.assignee = JStr(DEFAULT_ASSIGNEE)

\* C8 witness: an actionable evaluation whose decoded assignee "Bob" became the default
C8_Witness ==
    /\ evaluation # None
    /\ ~completion.raised
    /\ _parse_response(completion.value).t = "obj"
    /\ Get(_parse_response(completion.value).o, "assignee", None) = JStr("Bob")
    /\ evaluation.assignee = JStr("Roger")
    /\ pc = "create"

\* the create_task calls that returned success = false
FailedCreates == Len(SelectSeq(calls, LAMBDA c : c.op = "create_task" /\ ~c.ok))

\* every email the loop has counted so far went to exactly one of
\* tasks_created, emails_skipped and the failed creations
Accounted ==
    /\ tasks_created + emails_skipped + FailedCreates = (i - 1) + (IF pc = "mark" THEN 1 ELSE 0)
    /\ pc \in {"start", "fetch"} => (tasks_created = 0 /\ emails_skipped = 0)
    /\ summary # None
           => /\ summary.processed = Len(emails)
              /\ summary.created + summary.skipped + FailedCreates = summary.processed

\* C10: tasks_created and emails_skipped start at 0 and never decrease; an
\* email adds one to at most one of them; and in the printed summary
\* tasks_created + emails_skipped + (the emails whose create_task returned
\* success = false) is the number of emails processed.
C10_CounterAccounting ==
    /\ []Accounted
    /\ [][/\ tasks_created' \in {tasks_created, tasks_created + 1}
          /\ emails_skipped' \in {emails_skipped, emails_skipped + 1}
          /\ ~(tasks_created' # tasks_created /\ emails_skipped' # emails_skipped)]_vars

\* C10 witness: a summary over a created task, a skipped email and a failed creation
C10_Witness ==
    /\ summary # None
    /\ summary.created = 1
    /\ summary.skipped = 1
    /\ FailedCreates = 1
    /\ summary.processed = 3


(***************************************************************************)
(* Runs over one mailbox.                                                  *)
(***************************************************************************)
\* the emails the current run has fetched, classified or turned into a task
TouchedNow ==
    {emails[k].id : k \in DOMAIN emails} \cup {calls[k].id : k \in DOMAIN calls}

\* the emails the current run has created a task for
TaskedNow == IdsWith("create_task", TRUE)

\* C11: with the UNREAD labels changed by this program only, an email that an
\* earlier run marked read is no longer unread and is not fetched, classified
\* or turned into a task by the current run; and an email for which the
\* current run created a task after an earlier run had created one was left
\* unread by a failed mark_as_read in a run that created a task for it.
C11_ReadEmailsStayOut ==
    /\ earlier.marked_read \cap unread = {}
    /\ earlier.marked_read \cap TouchedNow = {}
    /\ (TaskedNow \cap earlier.task_created) \subseteq earlier.mark_failed_after_task

\* C11 witness: a later run has created a second task for an email whose
\* task an earlier run created, while another email, which that earlier run
\* marked read, stays out of the later run.
C11_Witness ==
    /\ earlier.marked_read # {}
    /\ TaskedNow \cap earlier.task_created # {}

====
